---- MODULE Spec2Model ----
(***************************************************************************)
(* Timeweb AI plugin (src/main.ts): the "transform selection" command, its *)
(* instruction modal and the settings panel, as a state machine.           *)
(*                                                                         *)
(* Text is a sequence of one-character strings; a fixed literal of the     *)
(* source (a label, the default instruction, the fallback reply) is one    *)
(* element of such a sequence.  A document position is an offset           *)
(* 0..Len(doc); the editor selection is the ordered pair (from, to) that   *)
(* getCursor("from") / getCursor("to") return.                             *)
(*                                                                         *)
(* The event loop is single threaded: an action is one task of the loop    *)
(* together with the continuation of the command that the task resumes     *)
(* (the code after an await runs in the microtask that follows the task    *)
(* that settled the promise, before any other task).                       *)
(***************************************************************************)
EXTENDS Integers, Sequences, FiniteSets, TLC

\* ------------------------------------------------------------------ bounds
MaxDoc == 2        \* longest document at start-up
MaxInput == 1      \* longest text typed into the modal's textarea
MaxReply == 1      \* longest message text in a response body
MaxEvents == 1     \* user actions outside the command's own flow
MaxEdits == 4      \* edits in the settings panel, when the command is not invoked

\* ------------------------------------------------------------------ domains
Inv == {1, 2}                      \* invocations of the command
DocChars == <<"a", "b", "c", "d">>   \* the document's characters, all different
TypedChars == {"u"}                \* characters the user types into the document
InputChars == {"i"}
ReplyChars == {"r"}
Statuses == {200, 204, 404, 500}   \* HTTP statuses the endpoint answers with
TokenValues == {"", "tk"}          \* values typed into the token field
AgentValues == {"", "ag"}          \* values typed into the agent id field

RECURSIVE SeqsUpTo(_, _)
SeqsUpTo(S, n) ==
  IF n = 0 THEN {<<>>}
  ELSE LET shorter == SeqsUpTo(S, n - 1)
       IN  shorter \cup {Append(s, c) : s \in shorter, c \in S}

Min(a, b) == IF a <= b THEN a ELSE b

\* string | null, as a sequence of at most one text
Null == <<>>
Some(s) == <<s>>

\* ------------------------------------------------------------------ state
VARIABLES
  settings,         \* this.settings: [token, agentId]
  stored,           \* the plugin's persisted data
  saving,           \* saveData calls not yet completed, oldest first
  activeView,       \* is there an active Markdown view
  doc,              \* text of the editor
  sel,              \* the editor's selection: [from, to]
  events,           \* user actions outside the command's flow still to come
  pc,               \* where each invocation of editorCallback is suspended
  cursorStart,      \* per invocation: getCursor("from") at invocation
  cursorEnd,        \* per invocation: getCursor("to") at invocation
  selectedText,     \* per invocation: getSelection() at invocation
  docAtInvoke,      \* per invocation: the document at invocation
  textarea,         \* per invocation: textarea.value of its modal
  result,           \* per invocation: modal.result
  key,              \* per invocation: the key of the last event its modal handled ("none": no keypress)
  requests,         \* per invocation: the fetch calls it has made
  aborted,          \* per invocation: controller.signal.aborted
  timeout,          \* per invocation: its timer
  response,         \* per invocation: status and body received
  generationNotice, \* per invocation: its persistent notice
  notices,          \* per invocation: the notices it has shown, in order
  log,              \* per invocation: its effects, in program order
  touched,          \* per invocation: has anything else acted on the editor since it captured the selection
  replaced          \* per invocation: the range its replaceSelection replaced

sv == <<settings, stored, saving>>
ev == <<doc, sel>>
capv == <<cursorStart, cursorEnd, selectedText, docAtInvoke>>
modv == <<textarea, result, key>>
netv == <<requests, aborted, timeout, response>>
uiv == <<generationNotice, notices>>
vars == <<sv, activeView, ev, events, pc, capv, modv, netv, uiv, log, touched, replaced>>

\* ------------------------------------------------------------------ text
Newline == "LF"
Texts(chars, n) == SeqsUpTo(chars, n)

\* fixed literals of the source
DefaultInstruction == <<"Process-the-text">>
NoReply == <<"No-reply">>
InstructionLabel == <<"Instruction: ">>
TextLabel == <<"LF", "LF", "Text:", "LF">>

MessageOf(instruction, textToSend) ==
  InstructionLabel \o instruction \o TextLabel \o textToSend

\* ------------------------------------------------------------------ editor
Positions(d) == 0 .. Len(d)
Ranges(d) == {r \in [from : Positions(d), to : Positions(d)] : r.from <= r.to}

GetSelection(d, s) == SubSeq(d, s.from + 1, s.to)

ReplaceRange(d, f, t, text) == SubSeq(d, 1, f) \o text \o SubSeq(d, t + 1, Len(d))

\* the documents at start-up: every position holds a different character, so
\* that a range is known by its text
Documents == {SubSeq(DocChars, 1, n) : n \in 0 .. MaxDoc}

\* editor.setSelection(anchor, head): positions are clipped to the document
SetSelection(d, a, h) ==
  LET ca == Min(a, Len(d))
      ch == Min(h, Len(d))
  IN  [from |-> Min(ca, ch), to |-> IF ca <= ch THEN ch ELSE ca]

\* a replaceSelection that inserts at the start of the selection and deletes nothing
InsertAtCursorDoc(d, s, text) == ReplaceRange(d, s.from, s.from, text)

\* editor.replaceSelection(text): the cursor ends after the inserted text
ReplaceSelectionDoc(d, s, text) == ReplaceRange(d, s.from, s.to, text)
ReplaceSelectionSel(s, text) ==
  [from |-> s.from + Len(text), to |-> s.from + Len(text)]

\* ------------------------------------------------------------------ notices
WarnSettings == [kind |-> "warn-settings", status |-> 0]
WarnNoEditor == [kind |-> "warn-no-editor", status |-> 0]
Generation == [kind |-> "generation", status |-> 0]
ApiError(s) == [kind |-> "api-error", status |-> s]
RequestError == [kind |-> "request-error", status |-> 0]
Inserted == [kind |-> "inserted", status |-> 0]

\* ------------------------------------------------------------------ response
Absent == [k |-> "absent", s |-> <<>>]
JsonNull == [k |-> "null", s |-> <<>>]
JsonNumber == [k |-> "num", s |-> <<>>]
JsonString(s) == [k |-> "str", s |-> s]
Replies == Texts(ReplyChars, MaxReply)
MessageFields == {Absent, JsonNull, JsonNumber} \cup {JsonString(r) : r \in Replies}

\* a response body: text that is not JSON, a JSON value that is no object,
\* or a JSON object with its message field
Bodies == {[t |-> x, m |-> Absent] : x \in {"invalid", "null", "num", "str", "arr"}} \cup
          {[t |-> "obj", m |-> m] : m \in MessageFields}
NoBody == [t |-> "none", m |-> Absent]
NoResponse == [status |-> 0, body |-> NoBody]

\* a status check with no upper limit
NotBelow200(s) == s >= 200

\* response.ok
Ok(s) == s >= 200 /\ s <= 299

\* data?.message
MessageField(data) == IF data.t = "obj" THEN data.m ELSE Absent

\* a fallback for a missing field alone, not for null
IfAbsent(v, fallback) == IF v.k = "absent" THEN fallback ELSE v

\* v ?? fallback
Coalesce(v, fallback) == IF v.k \in {"absent", "null"} THEN fallback ELSE v

Reply(data) == Coalesce(MessageField(data), JsonString(NoReply))

\* what the editor shows for a number handed to replaceSelection
NumberText == <<"7">>

\* ------------------------------------------------------------------ start-up
SettingsValues == [token : TokenValues, agentId : AgentValues]

\* onload: loadSettings merges the persisted data over DEFAULT_SETTINGS.
\* Commands(n): the user invokes the command n times in the run; the other
\* invocations stay "off".
Commands(n) == [i \in Inv |-> IF i <= n THEN "idle" ELSE "off"]

Init ==
  /\ settings \in SettingsValues
  /\ stored = settings
  /\ saving = <<>>
  /\ activeView \in BOOLEAN
  /\ doc \in Documents
  /\ sel \in Ranges(doc)
  /\ events = MaxEvents
  /\ pc = Commands(1)
  /\ cursorStart = [i \in Inv |-> 0]
  /\ cursorEnd = [i \in Inv |-> 0]
  /\ selectedText = [i \in Inv |-> <<>>]
  /\ docAtInvoke = [i \in Inv |-> <<>>]
  /\ textarea = [i \in Inv |-> <<>>]
  /\ result = [i \in Inv |-> Null]
  /\ key = [i \in Inv |-> "none"]
  /\ requests = [i \in Inv |-> <<>>]
  /\ aborted = [i \in Inv |-> FALSE]
  /\ timeout = [i \in Inv |-> "none"]
  /\ response = [i \in Inv |-> NoResponse]
  /\ generationNotice = [i \in Inv |-> "none"]
  /\ notices = [i \in Inv |-> <<>>]
  /\ log = [i \in Inv |-> <<>>]
  /\ touched = [i \in Inv |-> FALSE]
  /\ replaced = [i \in Inv |-> <<>>]

\* every invocation but `actor` that holds a captured range sees the editor touched
Touch(actor) ==
  [j \in Inv |-> IF j # actor /\ pc[j] \notin {"off", "idle"} THEN TRUE ELSE touched[j]]

\* ------------------------------------------------------------------ the user, outside the command
UserSelects(r) ==
  /\ events > 0
  /\ r \in Ranges(doc)
  /\ r # sel
  /\ sel' = r
  /\ events' = events - 1
  /\ touched' = Touch(0)
  /\ UNCHANGED <<sv, activeView, doc, pc, capv, modv, netv, uiv, log, replaced>>

\* typing a character over the selection, or deleting the selection
UserEdits(text) ==
  /\ events > 0
  /\ text # <<>> \/ sel.from < sel.to
  /\ doc' = ReplaceSelectionDoc(doc, sel, text)
  /\ sel' = ReplaceSelectionSel(sel, text)
  /\ events' = events - 1
  /\ touched' = Touch(0)
  /\ UNCHANGED <<sv, activeView, pc, capv, modv, netv, uiv, log, replaced>>

UserSwitchesView ==
  /\ events > 0
  /\ activeView' = ~activeView
  /\ events' = events - 1
  /\ UNCHANGED <<sv, ev, pc, capv, modv, netv, uiv, log, touched, replaced>>

\* ------------------------------------------------------------------ settings panel
\* a settings panel that changes the settings in memory only
NoSave(s) == saving

\* saveSettings: saveData(this.settings)
SaveSettings(s) == Append(saving, s)

TokenChanged(value) ==
  /\ events > 0
  /\ value # settings.token
  /\ settings' = [settings EXCEPT !.token = value]
  /\ saving' = SaveSettings(settings')
  /\ events' = events - 1
  /\ UNCHANGED <<stored, activeView, ev, pc, capv, modv, netv, uiv, log, touched, replaced>>

AgentIdChanged(value) ==
  /\ events > 0
  /\ value # settings.agentId
  /\ settings' = [settings EXCEPT !.agentId = value]
  /\ saving' = SaveSettings(settings')
  /\ events' = events - 1
  /\ UNCHANGED <<stored, activeView, ev, pc, capv, modv, netv, uiv, log, touched, replaced>>

\* a saveData call completes
SaveCompletes ==
  /\ saving # <<>>
  /\ stored' = Head(saving)
  /\ saving' = Tail(saving)
  /\ UNCHANGED <<settings, activeView, ev, events, pc, capv, modv, netv, uiv, log, touched, replaced>>

\* ------------------------------------------------------------------ the command
\* a precondition that forgets the agent id
TokenMissing(s) == s.token = ""

\* !this.settings.token || !this.settings.agentId
SettingsMissing(s) == s.token = "" \/ s.agentId = ""

\* editorCallback, up to the await of the modal's close
Invoke(i) ==
  /\ pc[i] = "idle"
  /\ IF SettingsMissing(settings)
     THEN /\ notices' = [notices EXCEPT ![i] = Append(@, WarnSettings)]
          /\ pc' = [pc EXCEPT ![i] = "done"]
          /\ log' = [log EXCEPT ![i] = @ \o <<"warn">>]
          /\ UNCHANGED <<capv, modv>>
     ELSE IF ~activeView
     THEN /\ notices' = [notices EXCEPT ![i] = Append(@, WarnNoEditor)]
          /\ pc' = [pc EXCEPT ![i] = "done"]
          /\ log' = [log EXCEPT ![i] = @ \o <<"warn">>]
          /\ UNCHANGED <<capv, modv>>
     ELSE /\ cursorStart' = [cursorStart EXCEPT ![i] = sel.from]
          /\ cursorEnd' = [cursorEnd EXCEPT ![i] = sel.to]
          /\ selectedText' = [selectedText EXCEPT ![i] = GetSelection(doc, sel)]
          /\ docAtInvoke' = [docAtInvoke EXCEPT ![i] = doc]
          /\ textarea' = [textarea EXCEPT ![i] = <<>>]
          /\ result' = [result EXCEPT ![i] = Null]
          /\ key' = [key EXCEPT ![i] = "none"]
          /\ pc' = [pc EXCEPT ![i] = "modal"]
          /\ log' = [log EXCEPT ![i] = @ \o <<"capture", "open">>]
          /\ UNCHANGED notices
  /\ UNCHANGED <<sv, activeView, ev, events, netv, generationNotice, touched, replaced>>

\* a check for null alone, which lets an empty submission through
NotNull(res) == res # Null

\* !instructionOrText is false
Provided(res) == res # Null /\ res[1] # <<>>

\* a payload that always sends the modal's text
AlwaysInput(selected, input) == input

TextToSend(selected, input) == IF selected # <<>> THEN selected ELSE input
Instruction(selected, input) == IF selected # <<>> THEN input ELSE DefaultInstruction

\* a fetch that is sent again when it gets no answer
DispatchAndRetry(sent, request) == Append(Append(sent, request), request)

\* fetch(...): one more request of the invocation is under way
Dispatch(sent, request) == Append(sent, request)

\* the request fetch is called with
Request(s, message) == [agentId |-> s.agentId, token |-> s.token, message |-> message]

\* the selection restored once the modal has closed
RestoreSelection(i) == SetSelection(doc, cursorStart[i], cursorEnd[i])

\* the modal closes with result res: editorCallback from the modal's close
\* up to the await of fetch
ModalCloses(i, res) ==
  /\ pc[i] = "modal"
  /\ result' = [result EXCEPT ![i] = res]
  /\ IF ~Provided(res)
     THEN /\ pc' = [pc EXCEPT ![i] = "done"]
          /\ log' = [log EXCEPT ![i] = @ \o <<"close">>]
          /\ UNCHANGED <<ev, netv, uiv, touched>>
     ELSE /\ sel' = RestoreSelection(i)
          /\ doc' = doc
          /\ touched' = Touch(i)
          /\ generationNotice' = [generationNotice EXCEPT ![i] = "visible"]
          /\ notices' = [notices EXCEPT ![i] = Append(@, Generation)]
          /\ timeout' = [timeout EXCEPT ![i] = "pending"]
          /\ requests' = [requests EXCEPT ![i] =
               Dispatch(@, Request(settings,
                 MessageOf(Instruction(selectedText[i], res[1]),
                           TextToSend(selectedText[i], res[1]))))]
          /\ pc' = [pc EXCEPT ![i] = "headers"]
          /\ log' = [log EXCEPT ![i] =
               @ \o <<"close", "restore", "generation", "timer", "fetch">>]
          /\ UNCHANGED <<aborted, response>>
  /\ UNCHANGED <<sv, activeView, events, capv, textarea, replaced>>

\* ------------------------------------------------------------------ the modal
Types(i, c) ==
  /\ pc[i] = "modal"
  /\ Len(textarea[i]) < MaxInput
  /\ textarea' = [textarea EXCEPT ![i] = Append(@, c)]
  /\ key' = [key EXCEPT ![i] = c]
  /\ UNCHANGED <<sv, activeView, ev, events, pc, capv, result, netv, uiv, log, touched, replaced>>

\* a listener that takes Enter with shift for Enter
ShiftEnterSubmits(i) ==
  /\ key' = [key EXCEPT ![i] = "Shift+Enter"]
  /\ ModalCloses(i, Some(textarea[i]))

\* keypress Enter with shift: the listener returns, the textarea takes the newline
ShiftEnter(i) ==
  /\ pc[i] = "modal"
  /\ Len(textarea[i]) < MaxInput
  /\ textarea' = [textarea EXCEPT ![i] = Append(@, Newline)]
  /\ key' = [key EXCEPT ![i] = "Shift+Enter"]
  /\ UNCHANGED <<sv, activeView, ev, events, pc, capv, result, netv, uiv, log, touched, replaced>>

\* keypress Enter without shift
Enter(i) ==
  /\ key' = [key EXCEPT ![i] = "Enter"]
  /\ ModalCloses(i, Some(textarea[i]))

\* sendBtn.onclick
Send(i) ==
  /\ key' = [key EXCEPT ![i] = "none"]
  /\ ModalCloses(i, Some(textarea[i]))

\* cancelBtn.onclick
Cancel(i) ==
  /\ key' = [key EXCEPT ![i] = "none"]
  /\ ModalCloses(i, Null)

\* the modal is closed by the host (Escape, a click outside): result is left as it is
Dismiss(i) ==
  /\ key' = [key EXCEPT ![i] = "none"]
  /\ ModalCloses(i, result[i])

\* ------------------------------------------------------------------ the response
\* a hide that is never called
NotHidden(notice) == notice

\* generationNotice.hide()
Hide(notice) == "hidden"

\* a finally block that leaves the timer running
NotCleared(t) == t

\* finally: clearTimeout(timeout)
ClearTimeout(t) == IF t = "pending" THEN "cleared" ELSE t

\* a catch that only logs the error
CatchSilently(i, timer, steps) ==
  /\ generationNotice' = [generationNotice EXCEPT ![i] = Hide(@)]
  /\ notices' = notices
  /\ timeout' = [timeout EXCEPT ![i] = ClearTimeout(timer)]
  /\ pc' = [pc EXCEPT ![i] = "done"]
  /\ log' = [log EXCEPT ![i] = @ \o steps \o <<"hide", "clearTimeout">>]
  /\ UNCHANGED <<ev, touched, replaced>>

\* a catch block that hides every generation notice on the screen
CatchHidesAll(i, timer, steps) ==
  /\ generationNotice' =
       [j \in Inv |-> IF generationNotice[j] = "visible" THEN Hide(generationNotice[j])
                                                          ELSE generationNotice[j]]
  /\ notices' = [notices EXCEPT ![i] = Append(@, RequestError)]
  /\ timeout' = [timeout EXCEPT ![i] = ClearTimeout(timer)]
  /\ pc' = [pc EXCEPT ![i] = "done"]
  /\ log' = [log EXCEPT ![i] = @ \o steps \o <<"hide", "request-error", "clearTimeout">>]
  /\ UNCHANGED <<ev, touched, replaced>>

\* catch (err)
Catch(i, timer, steps) ==
  /\ generationNotice' = [generationNotice EXCEPT ![i] = Hide(@)]
  /\ notices' = [notices EXCEPT ![i] = Append(@, RequestError)]
  /\ timeout' = [timeout EXCEPT ![i] = ClearTimeout(timer)]
  /\ pc' = [pc EXCEPT ![i] = "done"]
  /\ log' = [log EXCEPT ![i] = @ \o steps \o <<"hide", "request-error", "clearTimeout">>]
  /\ UNCHANGED <<ev, touched, replaced>>

\* a try block that hides the generation notice before it replaces the selection
HideThenInsert(i, text, steps) ==
  /\ doc' = ReplaceSelectionDoc(doc, sel, text)
  /\ sel' = ReplaceSelectionSel(sel, text)
  /\ replaced' = [replaced EXCEPT ![i] = <<[from |-> sel.from, to |-> sel.to, text |-> text]>>]
  /\ touched' = Touch(i)
  /\ generationNotice' = [generationNotice EXCEPT ![i] = Hide(@)]
  /\ notices' = [notices EXCEPT ![i] = Append(@, Inserted)]
  /\ timeout' = [timeout EXCEPT ![i] = ClearTimeout(timeout[i])]
  /\ pc' = [pc EXCEPT ![i] = "done"]
  /\ log' = [log EXCEPT ![i] = @ \o steps \o <<"hide", "replace", "inserted", "clearTimeout">>]

\* editorInstance.replaceSelection(reply) and the rest of the try block
Insert(i, text, steps) ==
  /\ doc' = ReplaceSelectionDoc(doc, sel, text)
  /\ sel' = ReplaceSelectionSel(sel, text)
  /\ replaced' = [replaced EXCEPT ![i] = <<[from |-> sel.from, to |-> sel.to, text |-> text]>>]
  /\ touched' = Touch(i)
  /\ generationNotice' = [generationNotice EXCEPT ![i] = Hide(@)]
  /\ notices' = [notices EXCEPT ![i] = Append(@, Inserted)]
  /\ timeout' = [timeout EXCEPT ![i] = ClearTimeout(timeout[i])]
  /\ pc' = [pc EXCEPT ![i] = "done"]
  /\ log' = [log EXCEPT ![i] = @ \o steps \o <<"replace", "hide", "inserted", "clearTimeout">>]

\* a non-success branch that reports the status and does not return
ReportAndGoOn(i, s) ==
  /\ pc[i] = "headers"
  /\ response' = [response EXCEPT ![i].status = s]
  /\ IF ~Ok(s)
     THEN /\ generationNotice' = [generationNotice EXCEPT ![i] = Hide(@)]
          /\ notices' = [notices EXCEPT ![i] = Append(@, ApiError(s))]
          /\ pc' = [pc EXCEPT ![i] = "body"]
          /\ log' = [log EXCEPT ![i] = @ \o <<"response", "hide", "api-error">>]
          /\ UNCHANGED timeout
     ELSE /\ pc' = [pc EXCEPT ![i] = "body"]
          /\ log' = [log EXCEPT ![i] = @ \o <<"response">>]
          /\ UNCHANGED <<uiv, timeout>>
  /\ UNCHANGED <<sv, activeView, ev, events, capv, modv, requests, aborted, touched, replaced>>

\* fetch resolves with a response of status s
ResponseArrives(i, s) ==
  /\ pc[i] = "headers"
  /\ response' = [response EXCEPT ![i].status = s]
  /\ IF ~Ok(s)
     THEN /\ generationNotice' = [generationNotice EXCEPT ![i] = Hide(@)]
          /\ notices' = [notices EXCEPT ![i] = Append(@, ApiError(s))]
          /\ timeout' = [timeout EXCEPT ![i] = ClearTimeout(@)]
          /\ pc' = [pc EXCEPT ![i] = "done"]
          /\ log' = [log EXCEPT ![i] = @ \o <<"response", "hide", "api-error", "clearTimeout">>]
     ELSE /\ pc' = [pc EXCEPT ![i] = "body"]
          /\ log' = [log EXCEPT ![i] = @ \o <<"response">>]
          /\ UNCHANGED <<uiv, timeout>>
  /\ UNCHANGED <<sv, activeView, ev, events, capv, modv, requests, aborted, touched, replaced>>

\* response.json() settles on body b
BodyArrives(i, b) ==
  /\ pc[i] = "body"
  /\ response' = [response EXCEPT ![i].body = b]
  /\ IF b.t = "invalid"
     THEN Catch(i, timeout[i], <<"body">>)
     ELSE LET reply == Reply(b)
          IN  IF reply.k = "str"
              THEN Insert(i, reply.s, <<"body">>)
              \* a reply that is no string: the editor inserts its text, or throws
              ELSE \/ Insert(i, NumberText, <<"body">>)
                   \/ Catch(i, timeout[i], <<"body">>)
  /\ UNCHANGED <<sv, activeView, events, capv, modv, requests, aborted>>

\* the request fails (no connection, the connection breaks while the body is read)
FetchFails(i) ==
  /\ pc[i] \in {"headers", "body"}
  /\ Catch(i, timeout[i], <<"failure">>)
  /\ UNCHANGED <<sv, activeView, events, capv, modv, requests, aborted, response>>

\* a timer whose abort reaches the fetch but not the reading of the body
TimerFiresBeforeResponse(i) ==
  /\ timeout[i] = "pending"
  /\ pc[i] = "headers"
  /\ aborted' = [aborted EXCEPT ![i] = TRUE]
  /\ Catch(i, "fired", <<"abort">>)
  /\ UNCHANGED <<sv, activeView, events, capv, modv, requests, response>>

\* the 30 s timer fires: controller.abort() rejects the pending fetch or body read
TimerFires(i) ==
  /\ timeout[i] = "pending"
  /\ aborted' = [aborted EXCEPT ![i] = TRUE]
  /\ Catch(i, "fired", <<"abort">>)
  /\ UNCHANGED <<sv, activeView, events, capv, modv, requests, response>>

\* ------------------------------------------------------------------ specification
Next ==
  \/ \E r \in Ranges(doc) : UserSelects(r)
  \/ \E text \in Texts(TypedChars, 1) : UserEdits(text)
  \/ UserSwitchesView
  \/ \E value \in TokenValues : TokenChanged(value)
  \/ \E value \in AgentValues : AgentIdChanged(value)
  \/ SaveCompletes
  \/ \E i \in Inv : Invoke(i)
  \/ \E i \in Inv, c \in InputChars : Types(i, c)
  \/ \E i \in Inv : ShiftEnter(i)
  \/ \E i \in Inv : Enter(i)
  \/ \E i \in Inv : Send(i)
  \/ \E i \in Inv : Cancel(i)
  \/ \E i \in Inv : Dismiss(i)
  \/ \E i \in Inv, s \in Statuses : ResponseArrives(i, s)
  \/ \E i \in Inv, b \in Bodies : BodyArrives(i, b)
  \/ \E i \in Inv : FetchFails(i)
  \/ \E i \in Inv : TimerFires(i)

Spec == Init /\ [][Next]_vars

\* the command invoked twice, the second time while the first is under way or
\* after it; the user does nothing else. The document is the longest one,
\* with all of it selected or with the cursor at its end.
ConcurrentInit ==
  /\ settings \in SettingsValues
  /\ stored = settings
  /\ saving = <<>>
  /\ activeView \in BOOLEAN
  /\ doc = SubSeq(DocChars, 1, MaxDoc)
  /\ sel \in {[from |-> 0, to |-> Len(doc)], [from |-> Len(doc), to |-> Len(doc)]}
  /\ events = 0
  /\ pc = Commands(2)
  /\ cursorStart = [i \in Inv |-> 0]
  /\ cursorEnd = [i \in Inv |-> 0]
  /\ selectedText = [i \in Inv |-> <<>>]
  /\ docAtInvoke = [i \in Inv |-> <<>>]
  /\ textarea = [i \in Inv |-> <<>>]
  /\ result = [i \in Inv |-> Null]
  /\ key = [i \in Inv |-> "none"]
  /\ requests = [i \in Inv |-> <<>>]
  /\ aborted = [i \in Inv |-> FALSE]
  /\ timeout = [i \in Inv |-> "none"]
  /\ response = [i \in Inv |-> NoResponse]
  /\ generationNotice = [i \in Inv |-> "none"]
  /\ notices = [i \in Inv |-> <<>>]
  /\ log = [i \in Inv |-> <<>>]
  /\ touched = [i \in Inv |-> FALSE]
  /\ replaced = [i \in Inv |-> <<>>]

CommandNext ==
  \/ \E i \in Inv : Invoke(i)
  \/ \E i \in Inv, c \in InputChars : Types(i, c)
  \/ \E i \in Inv : ShiftEnter(i)
  \/ \E i \in Inv : Enter(i)
  \/ \E i \in Inv : Send(i)
  \/ \E i \in Inv : Cancel(i)
  \/ \E i \in Inv : Dismiss(i)
  \/ \E i \in Inv, s \in Statuses : ResponseArrives(i, s)
  \/ \E i \in Inv, b \in Bodies : BodyArrives(i, b)
  \/ \E i \in Inv : FetchFails(i)
  \/ \E i \in Inv : TimerFires(i)

ConcurrentSpec == ConcurrentInit /\ [][CommandNext]_vars

\* a timer that has been set and not cleared fires; nothing else is promised:
\* the endpoint may never answer and the user may never act. The document is
\* the longest one, with all of it selected or with the cursor at its end.
FairInit ==
  /\ Init
  /\ doc = SubSeq(DocChars, 1, MaxDoc)
  /\ sel \in {[from |-> 0, to |-> Len(doc)], [from |-> Len(doc), to |-> Len(doc)]}

FairSpec == FairInit /\ [][Next]_vars /\ \A i \in Inv : WF_vars(TimerFires(i))

\* the settings panel alone: the user edits the two fields, the command is
\* never invoked. The host writes the data of the saveData calls in the order
\* of the calls, each with the settings it was called with.
SettingsInit ==
  /\ settings \in SettingsValues
  /\ stored = settings
  /\ saving = <<>>
  /\ activeView = TRUE
  /\ doc = <<>>
  /\ sel = [from |-> 0, to |-> 0]
  /\ events = MaxEdits
  /\ pc = Commands(0)
  /\ cursorStart = [i \in Inv |-> 0]
  /\ cursorEnd = [i \in Inv |-> 0]
  /\ selectedText = [i \in Inv |-> <<>>]
  /\ docAtInvoke = [i \in Inv |-> <<>>]
  /\ textarea = [i \in Inv |-> <<>>]
  /\ result = [i \in Inv |-> Null]
  /\ key = [i \in Inv |-> "none"]
  /\ requests = [i \in Inv |-> <<>>]
  /\ aborted = [i \in Inv |-> FALSE]
  /\ timeout = [i \in Inv |-> "none"]
  /\ response = [i \in Inv |-> NoResponse]
  /\ generationNotice = [i \in Inv |-> "none"]
  /\ notices = [i \in Inv |-> <<>>]
  /\ log = [i \in Inv |-> <<>>]
  /\ touched = [i \in Inv |-> FALSE]
  /\ replaced = [i \in Inv |-> <<>>]

SettingsNext ==
  \/ \E value \in TokenValues : TokenChanged(value)
  \/ \E value \in AgentValues : AgentIdChanged(value)
  \/ SaveCompletes

SettingsSpec == SettingsInit /\ [][SettingsNext]_vars

\* ------------------------------------------------------------------ properties
Last(s) == s[Len(s)]
Did(i, step) == \E k \in 1 .. Len(log[i]) : log[i][k] = step
Succeeded(i) == pc[i] = "done" /\ notices[i] # <<>> /\ Last(notices[i]) = Inserted
CarriesMessage(i) == response[i].body.t = "obj" /\ response[i].body.m.k = "str"

\* C1: when the response is successful and its body carries a message m, and
\* nothing else has acted on the editor since the invocation captured the
\* selection, the document is the document at invocation with the captured
\* range (cursorStart, cursorEnd) replaced by exactly m.
C1_ReplyReplacesCapturedRange ==
  \A i \in Inv :
    (Succeeded(i) /\ CarriesMessage(i) /\ ~touched[i]) =>
      /\ doc = ReplaceRange(docAtInvoke[i], cursorStart[i], cursorEnd[i], response[i].body.m.s)
      /\ replaced[i] = <<[from |-> cursorStart[i], to |-> cursorEnd[i],
                          text |-> response[i].body.m.s]>>

\* a non-empty range inside a longer document has been replaced by a non-empty message
C1_Witness ==
  \E i \in Inv :
    /\ Succeeded(i) /\ CarriesMessage(i) /\ ~touched[i]
    /\ cursorStart[i] < cursorEnd[i]
    /\ Len(docAtInvoke[i]) > cursorEnd[i] - cursorStart[i]
    /\ response[i].body.m.s # <<>>
    /\ doc # docAtInvoke[i]

\* C2: on a successful response the range that is replaced is the range
\* captured at invocation, whatever happened to the editor in between.
C2_ReplacesCapturedRange ==
  \A i \in Inv :
    replaced[i] # <<>> =>
      /\ replaced[i][1].from = cursorStart[i]
      /\ replaced[i][1].to = cursorEnd[i]

\* what an invocation refused at its preconditions has done
C3_Refused(i) ==
  /\ pc[i] = "done"
  /\ log[i] = <<"warn">>
  /\ requests[i] = <<>>
  /\ timeout[i] = "none"
  /\ generationNotice[i] = "none"
  /\ replaced[i] = <<>>
  /\ Len(notices[i]) = 1
  /\ notices[i][1] \in {WarnSettings, WarnNoEditor}

\* C3: an invocation made while the token or the agent id is empty, or while
\* there is no active Markdown view, ends at once: no request, no modal, the
\* document unchanged, exactly one notice, which is a warning; and nothing
\* follows it.
C3_NoStartWithoutPreconditions ==
  /\ [][\A i \in Inv :
          (/\ pc[i] = "idle"
           /\ pc'[i] # "idle"
           /\ settings.token = "" \/ settings.agentId = "" \/ ~activeView)
          => (C3_Refused(i))' /\ doc' = doc /\ sel' = sel]_vars
  /\ [](\A i \in Inv : Did(i, "warn") => C3_Refused(i))

\* the command was refused for the agent id alone
C3_Witness ==
  \E i \in Inv :
    /\ C3_Refused(i)
    /\ notices[i] = <<WarnSettings>>
    /\ settings.token # "" /\ settings.agentId = ""
    /\ activeView

\* what an invocation abandoned at the modal has done
C4_Abandoned(i) ==
  /\ pc[i] = "done"
  /\ log[i] = <<"capture", "open", "close">>
  /\ requests[i] = <<>>
  /\ timeout[i] = "none"
  /\ generationNotice[i] = "none"
  /\ notices[i] = <<>>
  /\ replaced[i] = <<>>

\* C4: when the modal closes with no result or with an empty submission, the
\* invocation ends there: document and selection as they were, no request,
\* no timer, no notice.
C4_CancelHasNoEffect ==
  /\ [][\A i \in Inv :
          (/\ pc[i] = "modal"
           /\ pc'[i] # "modal"
           /\ result'[i] = Null \/ result'[i] = Some(<<>>))
          => (C4_Abandoned(i))' /\ doc' = doc /\ sel' = sel]_vars
  /\ [](\A i \in Inv :
          (pc[i] \notin {"off", "idle", "modal"} /\ Did(i, "open")
           /\ (result[i] = Null \/ result[i] = Some(<<>>)))
          => C4_Abandoned(i))

\* an empty submission ended the invocation, after the user had moved the selection
C4_Witness ==
  \E i \in Inv :
    /\ C4_Abandoned(i)
    /\ result[i] = Some(<<>>)
    /\ touched[i]
    /\ sel # [from |-> cursorStart[i], to |-> cursorEnd[i]]

\* C5: after a response with a non-success status s the invocation has
\* stopped: it never replaced anything, its in-progress notice is hidden, the
\* one notice after the in-progress notice is the API error carrying s, and
\* it made one request.
C5_ErrorStatusReported ==
  \A i \in Inv :
    (response[i].status # 0 /\ ~(response[i].status \in 200 .. 299)) =>
      /\ pc[i] = "done"
      /\ replaced[i] = <<>>
      /\ generationNotice[i] = "hidden"
      /\ notices[i] = <<Generation, ApiError(response[i].status)>>
      /\ Len(requests[i]) = 1
      /\ response[i].body = NoBody

\* a 500 was reported
C5_Witness ==
  \E i \in Inv :
    /\ response[i].status = 500
    /\ pc[i] = "done"
    /\ Last(notices[i]) = ApiError(500)

\* C6: the timer stays armed for as long as the response or its body is
\* awaited; once it has fired the request is aborted, the invocation never
\* replaced anything, the in-progress notice is hidden and the request-error
\* (timeout) notice is the one shown.
C6_TimeoutReported ==
  \A i \in Inv :
    /\ pc[i] \in {"headers", "body"} => timeout[i] = "pending"
    /\ timeout[i] = "fired" =>
         /\ aborted[i]
         /\ pc[i] = "done"
         /\ replaced[i] = <<>>
         /\ generationNotice[i] = "hidden"
         /\ notices[i] = <<Generation, RequestError>>
    /\ aborted[i] => timeout[i] = "fired"

\* the timer fired while the body of a 200 response was being read
C6_Witness ==
  \E i \in Inv :
    /\ timeout[i] = "fired"
    /\ response[i].status = 200
    /\ Did(i, "response")
    /\ Last(notices[i]) = RequestError

\* the place of a step in the invocation's log
Position(i, step) == CHOOSE k \in 1 .. Len(log[i]) : log[i][k] = step

\* C7: the in-progress notice is shown before fetch is called, is visible
\* while the response or its body is awaited, and is not visible once the
\* invocation has finished, whichever way it finished.
C7_NoticeScoped ==
  \A i \in Inv :
    /\ pc[i] \in {"headers", "body"} => generationNotice[i] = "visible"
    /\ pc[i] = "done" => generationNotice[i] # "visible"
    /\ requests[i] # <<>> =>
         /\ Did(i, "generation") /\ Did(i, "fetch")
         /\ Position(i, "generation") < Position(i, "fetch")
         /\ notices[i][1] = Generation
    /\ (pc[i] = "done" /\ requests[i] # <<>>) =>
         /\ generationNotice[i] = "hidden"
         /\ Did(i, "hide")

\* the invocation finished on a body that is not JSON, and its notice is hidden
C7_Witness ==
  \E i \in Inv :
    /\ pc[i] = "done"
    /\ response[i].body.t = "invalid"
    /\ generationNotice[i] = "hidden"

\* C8: the message of the request is the instruction label, the instruction,
\* the text label and the text; with a non-empty selection at invocation the
\* text is that selection and the instruction is the modal's result, with an
\* empty selection the text is the modal's result and the instruction is the
\* default instruction.
C8_MessageFormat ==
  \A i \in Inv :
    requests[i] # <<>> =>
      LET captured == SubSeq(docAtInvoke[i], cursorStart[i] + 1, cursorEnd[i])
          typed == result[i][1]
      IN  /\ result[i] # Null
          /\ typed # <<>>
          /\ requests[i][1].message =
               IF captured # <<>>
               THEN InstructionLabel \o typed \o TextLabel \o captured
               ELSE InstructionLabel \o DefaultInstruction \o TextLabel \o typed

\* a request was made for a selection that the user has changed since
C8_Witness ==
  \E i \in Inv :
    /\ requests[i] # <<>>
    /\ selectedText[i] = <<"a", "b">>
    /\ result[i] = Some(<<"i">>)
    /\ touched[i]

\* a successful response whose body is an object without a message
MessageMissing(i) ==
  /\ response[i].status \in 200 .. 299
  /\ response[i].body.t = "obj"
  /\ response[i].body.m.k \in {"absent", "null"}

\* C9: on a successful response whose body is an object with no message, or
\* with a null message, the captured range is replaced by the fallback, the
\* in-progress notice is hidden and the success notice is shown.
C9_FallbackReplacesCapturedRange ==
  \A i \in Inv :
    MessageMissing(i) =>
      /\ replaced[i] = <<[from |-> cursorStart[i], to |-> cursorEnd[i], text |-> NoReply]>>
      /\ generationNotice[i] = "hidden"
      /\ notices[i] = <<Generation, Inserted>>

\* a successful response whose body has been read
BodyRead(i) == response[i].status \in 200 .. 299 /\ response[i].body # NoBody

\* C10, as claimed: for a successful status, every body that is not an
\* object with a string message ends with the fallback inserted and without
\* the error notice.
C10_EveryShapeFallsBack ==
  \A i \in Inv :
    (BodyRead(i) /\ ~CarriesMessage(i)) =>
      /\ replaced[i] # <<>>
      /\ replaced[i][1].text = NoReply
      /\ Last(notices[i]) # RequestError

\* C10, amended: for a successful status, a body that is JSON but no object,
\* or an object whose message is missing or null, ends with the fallback
\* inserted and the success notice; a body that is not JSON ends with the
\* error notice and nothing replaced; an object whose message is neither a
\* string nor null never ends with the fallback.
C10_FallbackForMissingMessage ==
  \A i \in Inv :
    BodyRead(i) =>
      /\ (\/ response[i].body.t \in {"null", "num", "str", "arr"}
          \/ response[i].body.t = "obj" /\ response[i].body.m.k \in {"absent", "null"})
         => /\ replaced[i] # <<>>
            /\ replaced[i][1].text = NoReply
            /\ notices[i] = <<Generation, Inserted>>
      /\ response[i].body.t = "invalid"
         => /\ replaced[i] = <<>>
            /\ notices[i] = <<Generation, RequestError>>
      /\ (response[i].body.t = "obj" /\ response[i].body.m.k = "num")
         => /\ replaced[i] # <<>> => replaced[i][1].text # NoReply
            /\ Last(notices[i]) \in {Inserted, RequestError}

\* a body with a null message ended with the fallback inserted
C10_Witness ==
  \E i \in Inv :
    /\ BodyRead(i)
    /\ response[i].body.t = "obj"
    /\ response[i].body.m.k = "null"
    /\ replaced[i] # <<>>
    /\ replaced[i][1].text = NoReply
    /\ Last(notices[i]) = Inserted

\* the number of times a step is in the invocation's log
Times(i, step) == Cardinality({k \in 1 .. Len(log[i]) : log[i][k] = step})

\* C11: an invocation calls fetch at most once: none before its modal has
\* closed, and no step taken after the request is under way (a response of
\* any status, a failure, the timer's abort) makes another request.
C11_AtMostOneRequest ==
  /\ [](\A i \in Inv :
          /\ Len(requests[i]) <= 1
          /\ Times(i, "fetch") = Len(requests[i])
          /\ pc[i] \in {"off", "idle", "modal"} => requests[i] = <<>>
          /\ pc[i] \in {"headers", "body"} => Len(requests[i]) = 1)
  /\ [][\A i \in Inv :
          pc[i] \in {"headers", "body", "done"} => requests'[i] = requests[i]]_vars

\* an invocation ended by the timer's abort has made its one request
C11_Witness ==
  \E i \in Inv :
    /\ pc[i] = "done"
    /\ aborted[i]
    /\ Len(requests[i]) = 1

\* the terminal outcomes of an invocation that made its request
EndedInSuccess(i) ==
  /\ replaced[i] # <<>>
  /\ notices[i] = <<Generation, Inserted>>
EndedInFailure(i) ==
  /\ replaced[i] = <<>>
  /\ Len(notices[i]) = 2
  /\ notices[i][1] = Generation
  /\ notices[i][2].kind \in {"api-error", "request-error"}

\* C12: with a timer that fires unless it is cleared, an invocation whose
\* request is under way finishes, even if the endpoint never answers; and
\* it has then ended in success or in a reported failure, never in both.
C12_RequestEnds ==
  /\ \A i \in Inv : (pc[i] \in {"headers", "body"}) ~> (pc[i] = "done")
  /\ [](\A i \in Inv :
          (pc[i] = "done" /\ requests[i] # <<>>) =>
            /\ EndedInSuccess(i) \/ EndedInFailure(i)
            /\ ~(EndedInSuccess(i) /\ EndedInFailure(i)))

\* the endpoint never answered and the timer ended the invocation
C12_Witness ==
  \E i \in Inv :
    /\ pc[i] = "done"
    /\ aborted[i]
    /\ response[i] = NoResponse
    /\ EndedInFailure(i)

\* C13: an invocation that made its request and has finished, by whichever
\* path (success, non-success status, thrown error, abort), has no timer
\* pending: clearTimeout was its last step, and the abort signal does not
\* fire once the invocation has finished.
C13_TimerCancelled ==
  /\ [](\A i \in Inv :
          (pc[i] = "done" /\ requests[i] # <<>>) =>
            /\ timeout[i] \in {"cleared", "fired"}
            /\ Last(log[i]) = "clearTimeout"
            /\ Times(i, "clearTimeout") = 1
            /\ aborted[i] <=> timeout[i] = "fired")
  /\ [](\A i \in Inv : timeout[i] = "pending" <=> pc[i] \in {"headers", "body"})
  /\ [][\A i \in Inv : pc[i] = "done" => aborted'[i] = aborted[i]]_vars

\* a reply was inserted and the timer was cleared before it fired
C13_Witness ==
  \E i \in Inv :
    /\ pc[i] = "done"
    /\ replaced[i] # <<>>
    /\ timeout[i] = "cleared"
    /\ ~aborted[i]

\* C14: an Enter keypress with shift leaves the modal open and its result
\* unset; an Enter keypress without shift closes the modal with the result
\* set to the textarea's value; and whatever was typed before, a result read
\* after the modal has closed is the text that was there at the event that
\* submitted it.
C14_EnterSubmits ==
  /\ [](\A i \in Inv :
          /\ key[i] = "Shift+Enter" => pc[i] = "modal" /\ result[i] = Null
          /\ key[i] = "Enter" => pc[i] \notin {"off", "idle", "modal"}
                                  /\ result[i] = Some(textarea[i])
          /\ (pc[i] \notin {"off", "idle", "modal"} /\ result[i] # Null)
               => result[i] = Some(textarea[i]))
  /\ [][\A i \in Inv :
          /\ textarea'[i] # textarea[i]
               => pc[i] = "modal" /\ pc'[i] = "modal" /\ result'[i] = result[i]
          /\ (key'[i] = "Enter" /\ pc[i] = "modal")
               => pc'[i] # "modal" /\ result'[i] = Some(textarea[i])]_vars

\* Enter submitted a text that Shift+Enter had put a newline in
C14_Witness ==
  \E i \in Inv :
    /\ key[i] = "Enter"
    /\ result[i] = Some(<<Newline>>)
    /\ requests[i] # <<>>

\* C15: an edit of the token or of the agent id in the settings panel changes
\* that field of the settings in memory and no other, and makes exactly one
\* saveData call, with the new settings; nothing else makes one. Once no
\* saveData call is pending the stored settings are the settings in memory.
C15_SettingsPersisted ==
  /\ [](/\ saving = <<>> => stored = settings
        /\ saving # <<>> => Last(saving) = settings)
  /\ [][settings' # settings =>
          /\ (settings'.token = settings.token) # (settings'.agentId = settings.agentId)
          /\ saving' = Append(saving, settings')]_vars
  /\ [][Len(saving') > Len(saving) => settings' # settings]_vars

\* every edit the panel allows has been made and saved
C15_Witness ==
  /\ pc = Commands(0)
  /\ events = 0
  /\ saving = <<>>
  /\ stored = settings

\* the place of a step in the workflow: capture, open, close, restore,
\* generation notice, fetch, response or abort, replace, hide, success notice
\* (0: a step the workflow's order does not name)
Rank(step) ==
  CASE step = "capture" -> 1
    [] step = "open" -> 2
    [] step = "close" -> 3
    [] step = "restore" -> 4
    [] step = "generation" -> 5
    [] step = "fetch" -> 6
    [] step \in {"response", "abort", "failure"} -> 7
    [] step = "replace" -> 8
    [] step = "hide" -> 9
    [] step = "inserted" -> 10
    [] OTHER -> 0
Ranked(step) == Rank(step) > 0

\* the workflow of an invocation that succeeded
SuccessSteps ==
  <<"capture", "open", "close", "restore", "generation", "fetch",
    "response", "replace", "hide", "inserted">>

\* C16: the steps of an invocation are taken in the workflow's order: each
\* step the invocation takes is later in the order than the step before it
\* (so none is taken twice), but that an abort or a failure may follow the
\* response it shares its place with; an invocation that succeeded took
\* all of them; and the
\* selection is restored to the captured range when the modal closes on a
\* document that has not changed.
C16_StepsInOrder ==
  /\ [](\A i \in Inv :
          LET steps == SelectSeq(log[i], Ranked)
          IN  /\ \A k \in 1 .. Len(steps) - 1 :
                    /\ Rank(steps[k]) <= Rank(steps[k + 1])
                    /\ Rank(steps[k]) = Rank(steps[k + 1]) =>
                         steps[k] = "response" /\ steps[k + 1] \in {"abort", "failure"}
              /\ Succeeded(i) => steps = SuccessSteps)
  /\ [][\A i \in Inv :
          (pc[i] = "modal" /\ pc'[i] = "headers" /\ doc = docAtInvoke[i]) =>
            sel' = [from |-> cursorStart[i], to |-> cursorEnd[i]]]_vars

\* an invocation went through the whole workflow
C16_Witness ==
  \E i \in Inv :
    /\ pc[i] = "done"
    /\ SelectSeq(log[i], Ranked) = SuccessSteps
    /\ replaced[i] # <<>>

\* C17: the token and the agent id of a request that is sent are not empty,
\* also when the settings are edited between the check of the preconditions
\* and the fetch.
C17_RequestCredentialsNonEmpty ==
  \A i \in Inv :
    \A k \in 1 .. Len(requests[i]) :
      /\ requests[i][k].token # ""
      /\ requests[i][k].agentId # ""

\* the notices of an invocation other than the generation notice
IsTerminal(notice) == notice.kind # "generation"
TerminalNotices(i) == SelectSeq(notices[i], IsTerminal)

\* C18: an invocation replaces the selection at most once and shows at most
\* one terminal notice; the success notice is shown exactly when the
\* selection was replaced; and an invocation that showed a warning or an
\* error notice has replaced nothing.
C18_OneOutcome ==
  /\ [](\A i \in Inv :
          /\ Len(replaced[i]) <= 1
          /\ Times(i, "replace") = Len(replaced[i])
          /\ Len(TerminalNotices(i)) <= 1
          /\ (\E k \in 1 .. Len(notices[i]) : notices[i][k] = Inserted) <=> replaced[i] # <<>>
          /\ (\E k \in 1 .. Len(notices[i]) :
                 notices[i][k].kind \in {"warn-settings", "warn-no-editor", "api-error", "request-error"})
               => replaced[i] = <<>>)
  /\ [][\A i \in Inv :
          /\ replaced[i] # <<>> => replaced'[i] = replaced[i]
          /\ TerminalNotices(i) # <<>> => notices'[i] = notices[i]]_vars

\* a status outside 200..299 was reported and the document is as it was
C18_Witness ==
  \E i \in Inv :
    /\ pc[i] = "done"
    /\ notices[i] = <<Generation, ApiError(500)>>
    /\ replaced[i] = <<>>
    /\ ~touched[i]
    /\ doc = docAtInvoke[i]

\* C19: with two invocations under way at once, the generation notice, the
\* timer and the abort signal of an invocation change only in a step of
\* that invocation, and no step is a step of both; the notice is hidden and
\* the timer is settled by the step that finishes the invocation; while an
\* invocation's request is pending its notice is visible and its timer is
\* pending, whatever the other has done; and once every invocation has
\* finished no generation notice is visible and no timer is pending.
C19_InvocationsIndependent ==
  /\ [][\A j \in Inv :
          /\ (\/ generationNotice'[j] # generationNotice[j]
              \/ timeout'[j] # timeout[j]
              \/ aborted'[j] # aborted[j]
              \/ requests'[j] # requests[j]
              \/ pc'[j] # pc[j])
               => /\ log'[j] # log[j]
                  /\ \A k \in Inv \ {j} : log'[k] = log[k]
          /\ (generationNotice[j] = "visible" /\ generationNotice'[j] # "visible")
               => pc'[j] = "done"
          /\ (timeout[j] = "pending" /\ timeout'[j] # "pending")
               => pc'[j] = "done"
          /\ (aborted'[j] /\ ~aborted[j])
               => timeout[j] = "pending" /\ timeout'[j] = "fired"]_vars
  /\ [](\A j \in Inv :
          pc[j] \in {"headers", "body"} =>
            generationNotice[j] = "visible" /\ timeout[j] = "pending" /\ ~aborted[j])
  /\ []((\A i \in Inv : pc[i] = "done") =>
          \A i \in Inv : generationNotice[i] # "visible" /\ timeout[i] # "pending")

\* both invocations captured the same document; one has been ended by its
\* timer while the request of the other is still pending
C19_Witness ==
  \E i, j \in Inv :
    /\ i # j
    /\ docAtInvoke[i] = docAtInvoke[j]
    /\ pc[i] = "done" /\ aborted[i] /\ timeout[i] = "fired" /\ generationNotice[i] = "hidden"
    /\ pc[j] = "headers" /\ ~aborted[j] /\ timeout[j] = "pending" /\ generationNotice[j] = "visible"

====
